---- MODULE Spec2Model ----
(***************************************************************************)
(* A model of gogb's CPU core: the RAM behind the MMU interface            *)
(* (pkg/gogb/memory/memory.go), the Z80 flags register and register state  *)
(* (pkg/gogb/cpu/z80.go) and the instruction primitives push, pop, add8,   *)
(* add16, and, bit and call (pkg/gogb/cpu, the text that follows the unit  *)
(* tests in instructions_test.go).                                         *)
(*                                                                         *)
(* Every primitive is a pure operator computed as the Go code computes it  *)
(* (fixed-width arithmetic modulo 2^8 or 2^16, the bounds checks in the    *)
(* order the code makes them, Go's run-time index check as the outcome     *)
(* "panic").  One action per primitive applies the operator to the state   *)
(* and records the call in `last`: its name, its arguments, what it        *)
(* returned and the state it started from.  `prev` is the call before.     *)
(***************************************************************************)
EXTENDS Integers, Sequences, FiniteSets

VARIABLES
    data,   \* RAM.data: the backing store, address a is data[a + 1]
    A,      \* State.A as the tests use it: the 8-bit left operand of add8 and and
    HL,     \* the 16-bit left operand of add16 (State.H and State.L)
    F,      \* State.F, a Z80Flags (uint8)
    PC,     \* State.PC (uint16)
    SP,     \* State.SP (uint16)
    last,   \* the last call: [op, a, b, c, err, ret, pre]
    prev,   \* the call before the last one
    nops    \* the number of calls made so far

vars == <<data, A, HL, F, PC, SP, last, prev, nops>>

----------------------------------------------------------------------------
(* Bounds of the model. *)

\* RAM sizes 0 .. MaxSize are explored (NewRAM takes any uint16).
MaxSize == 4
\* Calls per run of the memory specification.
MaxMemOps == 3
\* Calls per run of the stack specification.
MaxStackOps == 4
\* Calls per run of the flags specification.
MaxAluOps == 3

----------------------------------------------------------------------------
(* Fixed-width integers. *)

Uint8 == 0 .. 255

Wrap8(x) == x % 256

Wrap16(x) == x % 65536

RECURSIVE BitAnd(_, _)
\* Go's x & y on non-negative integers.
BitAnd(x, y) ==
    IF x = 0 \/ y = 0 THEN 0
    ELSE (x % 2) * (y % 2) + 2 * BitAnd(x \div 2, y \div 2)

RECURSIVE BitOr(_, _)
\* Go's x | y on non-negative integers.
BitOr(x, y) ==
    IF x = 0 THEN y
    ELSE IF y = 0 THEN x
    ELSE (IF x % 2 = 1 \/ y % 2 = 1 THEN 1 ELSE 0) + 2 * BitOr(x \div 2, y \div 2)

\* Go's ^x on a uint8.
Not8(x) == 255 - x

----------------------------------------------------------------------------
(* memory.go: errors and the RAM. *)

nil == "nil"

ErrAddressOutOfRange == "address out of range"

\* The outcome of an index expression r.data[i] with i outside the slice:
\* Go's run-time panic, which ends the call without a return value.
Panic == "panic"

\* NewRAM(size): make([]uint8, size), all zero.
NewRAM(size) == [i \in 1 .. size |-> 0]

\* GetByte(addr int) (uint8, error)
GetByte(d, addr) ==
    IF addr >= Len(d) THEN [val |-> 0, err |-> ErrAddressOutOfRange]
    ELSE IF addr < 0 THEN [val |-> 0, err |-> Panic]
    ELSE [val |-> d[addr + 1], err |-> nil]

\* GetWord(addr int) (uint16, error): big-endian.
GetWord(d, addr) ==
    IF addr + 1 >= Len(d) THEN [val |-> 0, err |-> ErrAddressOutOfRange]
    ELSE IF addr < 0 THEN [val |-> 0, err |-> Panic]
    ELSE [val |-> BitOr(Wrap16(d[addr + 1] * 256), d[addr + 2]), err |-> nil]

\* SetByte(addr int, val uint8) error
SetByte(d, addr, val) ==
    IF addr >= Len(d) THEN [data |-> d, err |-> ErrAddressOutOfRange]
    ELSE IF addr < 0 THEN [data |-> d, err |-> Panic]
    ELSE [data |-> [d EXCEPT ![addr + 1] = val], err |-> nil]

\* SetWord with the two bytes stored low byte first.
StoreWordLittleEndian(d, addr, val) ==
    [d EXCEPT ![addr + 1] = Wrap8(BitAnd(val, 255)),
              ![addr + 2] = Wrap8(BitAnd(val, 65280) \div 256)]

\* The two stores of SetWord: uint8((val & 0xFF00) >> 8), then uint8(val & 0x00FF).
StoreWord(d, addr, val) ==
    [d EXCEPT ![addr + 1] = Wrap8(BitAnd(val, 65280) \div 256),
              ![addr + 2] = Wrap8(BitAnd(val, 255))]

\* SetWord(addr int, val uint16) error: the first store, r.data[addr], is
\* the one that panics on a negative address, before anything is written.
SetWord(d, addr, val) ==
    IF addr + 1 >= Len(d) THEN [data |-> d, err |-> ErrAddressOutOfRange]
    ELSE IF addr < 0 THEN [data |-> d, err |-> Panic]
    ELSE [data |-> StoreWord(d, addr, val), err |-> nil]

----------------------------------------------------------------------------
(* z80.go: the flags register. *)

FlagEmpty == 0

\* The Carry flag one bit too low.
FlagCarryBit3 == 2 ^ 3

FlagCarry == 2 ^ 4

FlagHalfCarry == 2 ^ 5

FlagAddSub == 2 ^ 6

FlagZero == 2 ^ 7

Flags == {FlagCarry, FlagHalfCarry, FlagAddSub, FlagZero}

\* func (f *Z80Flags) Set(flag): *f |= flag
Set(f, flag) == BitOr(f, flag)

\* func (f *Z80Flags) Clear(flag): *f &= ^flag
Clear(f, flag) == BitAnd(f, Not8(flag))

\* func (f *Z80Flags) SetIf(condition, flag)
SetIf(f, condition, flag) == IF condition THEN Set(f, flag) ELSE Clear(f, flag)

\* func (f Z80Flags) IsSet(flag) bool: f&flag != 0
IsSet(f, flag) == BitAnd(f, flag) # 0

\* func (f Z80Flags) IsClear(flag) bool: f&flag == 0
IsClear(f, flag) == BitAnd(f, flag) = 0

----------------------------------------------------------------------------
(* The instruction primitives. *)

ErrStackOverflow == "stack overflow"

ErrStackUnderflow == "stack underflow"

\* push with the overflow test off by one: SP = 2 is let through.
pushBelowTwo(val, sp, d) ==
    IF sp < 2 THEN [sp |-> sp, data |-> d, err |-> ErrStackOverflow]
    ELSE LET sp2 == Wrap16(sp - 2)
             w == SetWord(d, sp2, val)
         IN [sp |-> sp2, data |-> w.data, err |-> w.err]

\* func push(val uint16, sp *uint16, mem memory.MMU) error
\* *sp -= 2 happens before the write and is not undone when the write fails.
push(val, sp, d) ==
    IF sp <= 2 THEN [sp |-> sp, data |-> d, err |-> ErrStackOverflow]
    ELSE LET sp2 == Wrap16(sp - 2)
             w == SetWord(d, sp2, val)
         IN [sp |-> sp2, data |-> w.data, err |-> w.err]

\* pop that moves SP before it looks at the error of the read.
popAdvanceFirst(sp, d) ==
    LET r == GetWord(d, sp)
    IN IF r.err = ErrAddressOutOfRange
       THEN [ret |-> 0, sp |-> Wrap16(sp + 2), err |-> ErrStackUnderflow]
       ELSE [ret |-> r.val, sp |-> Wrap16(sp + 2), err |-> r.err]

\* pop that moves SP by one byte.
popOneByte(sp, d) ==
    LET r == GetWord(d, sp)
    IN IF r.err = ErrAddressOutOfRange
       THEN [ret |-> 0, sp |-> sp, err |-> ErrStackUnderflow]
       ELSE [ret |-> r.val, sp |-> Wrap16(sp + 1), err |-> r.err]

\* func pop(sp *uint16, mem memory.MMU) (uint16, error)
pop(sp, d) ==
    LET r == GetWord(d, sp)
    IN IF r.err = ErrAddressOutOfRange
       THEN [ret |-> 0, sp |-> sp, err |-> ErrStackUnderflow]
       ELSE [ret |-> r.val, sp |-> Wrap16(sp + 2), err |-> r.err]

\* add8 with the half carry taken from right as the caller passed it.
add8CallerRight(left, right, f, withCarry) ==
    LET right1 == IF withCarry /\ IsSet(f, FlagCarry) THEN Wrap8(right + 1) ELSE right
        result == left + right1
        f1 == SetIf(f, result > 255, FlagCarry)
        result1 == BitAnd(result, 255)
        f2 == Clear(f1, FlagAddSub)
        f3 == SetIf(f2, result1 = 0, FlagZero)
        f4 == SetIf(f3, Wrap8(BitAnd(right, 15) + BitAnd(left, 15)) > 15, FlagHalfCarry)
    IN [left |-> Wrap8(BitAnd(result1, 255)), f |-> f4]

\* func add8(left *uint8, right uint8, f *Z80Flags, withCarry bool)
\* right++ is a uint8 increment: 0xFF becomes 0x00.
add8(left, right, f, withCarry) ==
    LET right1 == IF withCarry /\ IsSet(f, FlagCarry) THEN Wrap8(right + 1) ELSE right
        result == left + right1
        f1 == SetIf(f, result > 255, FlagCarry)
        result1 == BitAnd(result, 255)
        f2 == Clear(f1, FlagAddSub)
        f3 == SetIf(f2, result1 = 0, FlagZero)
        f4 == SetIf(f3, Wrap8(BitAnd(right1, 15) + BitAnd(left, 15)) > 15, FlagHalfCarry)
    IN [left |-> Wrap8(BitAnd(result1, 255)), f |-> f4]

\* add16 that manages Zero the way add8 does.
add16SetsZero(left, right, f) ==
    LET result == left + right
        f1 == SetIf(f, result > 65535, FlagCarry)
        result1 == BitAnd(result, 65535)
        f2 == Clear(f1, FlagAddSub)
        f3 == SetIf(f2, result1 = 0, FlagZero)
        f4 == SetIf(f3, Wrap16(BitAnd(right, 4095) + BitAnd(left, 4095)) > 4095, FlagHalfCarry)
    IN [left |-> Wrap16(BitAnd(result1, 65535)), f |-> f4]

\* func add16(left *uint16, right uint16, f *Z80Flags)
add16(left, right, f) ==
    LET result == left + right
        f1 == SetIf(f, result > 65535, FlagCarry)
        result1 == BitAnd(result, 65535)
        f2 == Clear(f1, FlagAddSub)
        f3 == SetIf(f2, Wrap16(BitAnd(right, 4095) + BitAnd(left, 4095)) > 4095, FlagHalfCarry)
    IN [left |-> Wrap16(BitAnd(result1, 65535)), f |-> f3]

\* func and(left *uint8, right uint8, f *Z80Flags)
and(left, right, f) ==
    LET left1 == BitAnd(left, right)
        f1 == SetIf(f, left1 = 0, FlagZero)
        f2 == Clear(f1, FlagAddSub)
        f3 == Set(f2, FlagHalfCarry)
        f4 == Clear(f3, FlagCarry)
    IN [left |-> left1, f |-> f4]

\* func bit(b uint8, val uint8, f *Z80Flags): 1<<b is a uint8 shift.
bit(b, val, f) == SetIf(f, BitAnd(val, Wrap8(2 ^ b)) = 0, FlagZero)

\* call that sets PC before it pushes.
callJumpFirst(addr, pc, sp, d) ==
    LET p == push(pc, sp, d)
    IN [pc |-> addr, sp |-> p.sp, data |-> p.data, err |-> p.err]

\* func call(addr uint16, pc *uint16, sp *uint16, mem memory.MMU) error
call(addr, pc, sp, d) ==
    LET p == push(pc, sp, d)
    IN IF p.err # nil
       THEN [pc |-> pc, sp |-> p.sp, data |-> p.data, err |-> p.err]
       ELSE [pc |-> addr, sp |-> p.sp, data |-> p.data, err |-> nil]

----------------------------------------------------------------------------
(* The state machine: one action per primitive. *)

\* The registers and the memory a call starts from.
Snapshot == [data |-> data, A |-> A, HL |-> HL, F |-> F, PC |-> PC, SP |-> SP]

\* The record of one call: a and b are its numeric arguments in order, c its
\* boolean argument, err and ret what it returned.
Call(op, a, b, c, err, ret) ==
    [op |-> op, a |-> a, b |-> b, c |-> c, err |-> err, ret |-> ret, pre |-> Snapshot]

NoCall == [op |-> "none", a |-> 0, b |-> 0, c |-> FALSE, err |-> nil, ret |-> 0]

\* A panic ends the program: no call follows it.
Running == last.err # Panic

\* Record a call of the memory or the stack, where a property may speak of
\* two calls in a row.
Record(c) ==
    /\ last' = c
    /\ prev' = last
    /\ nops' = nops + 1

\* Record a call of an arithmetic or flag primitive: the last call only.
RecordLast(c) ==
    /\ last' = c
    /\ nops' = nops + 1
    /\ UNCHANGED prev

\* Values the callers pass.
ByteVals == {0, 1, 14, 15, 171, 255}

WordVals == {48879, 255}

Addrs == -1 .. MaxSize

Sizes == 0 .. MaxSize

\* NewZ80(mem): State{} is all zero.
NewZ80 ==
    /\ A = 0
    /\ HL = 0
    /\ F = FlagEmpty
    /\ PC = 0
    /\ SP = 0

NoCalls ==
    /\ last = NoCall
    /\ prev = NoCall
    /\ nops = 0

(* The memory on its own. *)

InitRAM ==
    /\ \E size \in Sizes : data = NewRAM(size)
    /\ NewZ80
    /\ NoCalls

GetByteStep(addr) ==
    /\ Running
    /\ nops < MaxMemOps
    /\ LET r == GetByte(data, addr)
       IN /\ Record(Call("GetByte", addr, 0, FALSE, r.err, r.val))
          /\ UNCHANGED <<data, A, HL, F, PC, SP>>

GetWordStep(addr) ==
    /\ Running
    /\ nops < MaxMemOps
    /\ LET r == GetWord(data, addr)
       IN /\ Record(Call("GetWord", addr, 0, FALSE, r.err, r.val))
          /\ UNCHANGED <<data, A, HL, F, PC, SP>>

SetByteStep(addr, val) ==
    /\ Running
    /\ nops < MaxMemOps
    /\ LET r == SetByte(data, addr, val)
       IN /\ data' = r.data
          /\ Record(Call("SetByte", addr, val, FALSE, r.err, 0))
          /\ UNCHANGED <<A, HL, F, PC, SP>>

SetWordStep(addr, val) ==
    /\ Running
    /\ nops < MaxMemOps
    /\ LET r == SetWord(data, addr, val)
       IN /\ data' = r.data
          /\ Record(Call("SetWord", addr, val, FALSE, r.err, 0))
          /\ UNCHANGED <<A, HL, F, PC, SP>>

NextRAM ==
    \/ \E addr \in Addrs : GetByteStep(addr)
    \/ \E addr \in Addrs : GetWordStep(addr)
    \/ \E addr \in Addrs, val \in {171, 255} : SetByteStep(addr, val)
    \/ \E addr \in Addrs, val \in WordVals : SetWordStep(addr, val)

SpecRAM == InitRAM /\ [][NextRAM]_vars

(* The stack: push, pop and call over a RAM. *)

\* Stack pointers a caller may start from: around the overflow test, around
\* the end of the RAM, the tests' 0x00FF and the largest uint16.
InitSPs == (0 .. MaxSize + 2) \cup {255, 65535}

\* The largest RAM there is: NewRAM takes its size as a uint16.
MaxRAM == 65535

\* A small RAM with any of the stack pointers above, or the largest RAM with
\* the stack pointer at its very top, where SP + 2 would wrap.
InitStack ==
    /\ \/ /\ \E size \in Sizes : data = NewRAM(size)
          /\ SP \in InitSPs
          /\ PC \in {0, 65261}
       \/ /\ data = NewRAM(MaxRAM)
          /\ SP = 65535
          /\ PC = 65261
    /\ A = 0
    /\ HL = 0
    /\ F = FlagEmpty
    /\ NoCalls

PushStep(val) ==
    /\ Running
    /\ nops < MaxStackOps
    /\ LET r == push(val, SP, data)
       IN /\ SP' = r.sp
          /\ data' = r.data
          /\ Record(Call("push", val, 0, FALSE, r.err, 0))
          /\ UNCHANGED <<A, HL, F, PC>>

PopStep ==
    /\ Running
    /\ nops < MaxStackOps
    /\ LET r == pop(SP, data)
       IN /\ SP' = r.sp
          /\ Record(Call("pop", 0, 0, FALSE, r.err, r.ret))
          /\ UNCHANGED <<data, A, HL, F, PC>>

CallStep(addr) ==
    /\ Running
    /\ nops < MaxStackOps
    /\ LET r == call(addr, PC, SP, data)
       IN /\ PC' = r.pc
          /\ SP' = r.sp
          /\ data' = r.data
          /\ Record(Call("call", addr, 0, FALSE, r.err, 0))
          /\ UNCHANGED <<A, HL, F>>

NextStack ==
    \/ \E val \in WordVals : PushStep(val)
    \/ PopStep
    \/ \E addr \in WordVals : CallStep(addr)

SpecStack == InitStack /\ [][NextStack]_vars

(* The flags register under any sequence of the arithmetic primitives and of
   Set, Clear and SetIf. *)

\* The sixteen values of a flags register whose low four bits are clear.
CleanFlags == {16 * n : n \in 0 .. 15}

InitFlags ==
    /\ data = NewRAM(0)
    /\ A \in {0, 255}
    /\ HL \in {0, 4095}
    /\ F \in CleanFlags
    /\ PC = 0
    /\ SP = 0
    /\ NoCalls

\* add8(&A, right, &F, withCarry)
Add8Effect(right, withCarry) ==
    LET r == add8(A, right, F, withCarry)
    IN /\ A' = r.left
       /\ F' = r.f
       /\ RecordLast(Call("add8", right, 0, withCarry, nil, 0))
       /\ UNCHANGED <<data, HL, PC, SP>>

Add8Step(right, withCarry) ==
    /\ nops < MaxAluOps
    /\ Add8Effect(right, withCarry)

\* add16(&HL, right, &F)
Add16Effect(right) ==
    LET r == add16(HL, right, F)
    IN /\ HL' = r.left
       /\ F' = r.f
       /\ RecordLast(Call("add16", right, 0, FALSE, nil, 0))
       /\ UNCHANGED <<data, A, PC, SP>>

Add16Step(right) ==
    /\ nops < MaxAluOps
    /\ Add16Effect(right)

\* and(&A, right, &F)
AndStep(right) ==
    /\ nops < MaxAluOps
    /\ LET r == and(A, right, F)
       IN /\ A' = r.left
          /\ F' = r.f
          /\ RecordLast(Call("and", right, 0, FALSE, nil, 0))
          /\ UNCHANGED <<data, HL, PC, SP>>

\* bit(b, val, &F)
BitStep(b, val) ==
    /\ nops < MaxAluOps
    /\ F' = bit(b, val, F)
    /\ RecordLast(Call("bit", b, val, FALSE, nil, 0))
    /\ UNCHANGED <<data, A, HL, PC, SP>>

\* F.Set(flag)
SetStep(flag) ==
    /\ nops < MaxAluOps
    /\ F' = Set(F, flag)
    /\ RecordLast(Call("Set", flag, 0, FALSE, nil, 0))
    /\ UNCHANGED <<data, A, HL, PC, SP>>

\* F.Clear(flag)
ClearStep(flag) ==
    /\ nops < MaxAluOps
    /\ F' = Clear(F, flag)
    /\ RecordLast(Call("Clear", flag, 0, FALSE, nil, 0))
    /\ UNCHANGED <<data, A, HL, PC, SP>>

\* F.SetIf(condition, flag)
SetIfStep(condition, flag) ==
    /\ nops < MaxAluOps
    /\ F' = SetIf(F, condition, flag)
    /\ RecordLast(Call("SetIf", flag, 0, condition, nil, 0))
    /\ UNCHANGED <<data, A, HL, PC, SP>>

NextFlags ==
    \/ \E right \in ByteVals, withCarry \in BOOLEAN : Add8Step(right, withCarry)
    \/ \E right \in {1, 4095, 65535} : Add16Step(right)
    \/ \E right \in {0, 15, 240} : AndStep(right)
    \/ \E b \in {0, 3, 7, 8}, val \in {8, 247} : BitStep(b, val)
    \/ \E flag \in Flags : SetStep(flag)
    \/ \E flag \in Flags : ClearStep(flag)
    \/ \E condition \in BOOLEAN, flag \in Flags : SetIfStep(condition, flag)

SpecFlags == InitFlags /\ [][NextFlags]_vars

(* add8 as a function: one call, over every left, every right, with and
   without carry, from flags with Carry set and clear. *)

InitAdd8 ==
    /\ data = NewRAM(0)
    /\ A \in Uint8
    /\ HL = 0
    /\ F \in {FlagEmpty, FlagCarry, 224, 240}
    /\ PC = 0
    /\ SP = 0
    /\ NoCalls

Add8Once ==
    /\ nops = 0
    /\ \E right \in Uint8, withCarry \in BOOLEAN : Add8Effect(right, withCarry)

NextAdd8 == Add8Once

SpecAdd8 == InitAdd8 /\ [][NextAdd8]_vars

(* add16 as a function: one call, over left and right drawn from the words
   around the carry out of bit 11 and out of bit 15, from every clean flags
   value. *)

\* The top nibble and the low 12 bits are drawn apart: 0x0AA and 0xA.. are the
\* tests' operands, the rest sit at the ends and the middle of each range.
Words16 ==
    {h * 4096 + l : h \in {0, 1, 7, 8, 10, 15},
                    l \in {0, 1, 2, 170, 255, 256, 2048, 3840, 4094, 4095}}

InitAdd16 ==
    /\ data = NewRAM(0)
    /\ A = 0
    /\ HL \in Words16
    /\ F \in CleanFlags
    /\ PC = 0
    /\ SP = 0
    /\ NoCalls

Add16Once ==
    /\ nops = 0
    /\ \E right \in Words16 : Add16Effect(right)

NextAdd16 == Add16Once

SpecAdd16 == InitAdd16 /\ [][NextAdd16]_vars

----------------------------------------------------------------------------
(* The properties.  Each is stated over the record of the last call (its
   arguments, its results, the state it started from) and the state it left,
   in plain arithmetic. *)

\* Bit n of a flags value, read arithmetically.
FlagBit(f, n) == (f \div (2 ^ n)) % 2 = 1

\* The carry-in of an add8 call: 1 exactly when withCarry was true and Carry
\* was set before the call.
CarryIn(c) == IF c.c /\ FlagBit(c.pre.F, 4) THEN 1 ELSE 0

\* Whether the bytes a memory call asks for lie inside a store of `size` bytes.
InRange(op, addr, size) ==
    IF op \in {"GetByte", "SetByte"}
    THEN 0 <= addr /\ addr < size
    ELSE 0 <= addr /\ addr + 1 < size

\* C1: whenever push returns a failure of any kind (StackOverflow, or the
\* failure of the word write at the decremented address), SP after the call
\* equals SP before the call.
PushFailureKeepsSP ==
    (last.op = "push" /\ last.err # nil) => SP = last.pre.SP

\* C2: add8 stores the low 8 bits of left + right + carry-in into left and
\* sets Carry iff left + right + carry-in exceeds 0xFF, else clears it;
\* right = 0xFF with carry-in 1 included.
Add8SumAndCarry ==
    last.op = "add8" =>
        LET sum == last.pre.A + last.a + CarryIn(last)
        IN /\ A = sum % 256
           /\ FlagBit(F, 4) <=> sum > 255

\* C3: a memory call whose range is not fully inside [0, size) returns
\* AddressOutOfRange (it does not panic) and leaves every byte unchanged.
OutOfRangeFailsCleanly ==
    (/\ last.op \in {"GetByte", "GetWord", "SetByte", "SetWord"}
     /\ ~InRange(last.op, last.a, Len(last.pre.data)))
    => (last.err = ErrAddressOutOfRange /\ data = last.pre.data)

\* C4: when push(v) succeeds, the pop that follows it at once succeeds,
\* returns v and leaves SP at its value before the push.
PushPopRoundTrip ==
    (last.op = "pop" /\ prev.op = "push" /\ prev.err = nil)
    => (last.err = nil /\ last.ret = prev.a /\ SP = prev.pre.SP)

\* C4's case: 0xBEEF pushed and popped back.
PushPopRoundTripSeen ==
    /\ last.op = "pop"
    /\ prev.op = "push"
    /\ prev.err = nil
    /\ prev.a = 48879
    /\ last.ret = 48879
    /\ SP = prev.pre.SP

\* C5: pop returns StackUnderflow iff SP + 1 >= size, and then SP is
\* unchanged and the value returned is 0; otherwise it returns the big-endian
\* word stored at SP and SP grows by exactly 2, with no wrap past 0xFFFF.
PopUnderflowIffOutOfRange ==
    last.op = "pop" =>
        LET s == last.pre.SP
            d == last.pre.data
        IN IF s + 1 >= Len(d)
           THEN last.err = ErrStackUnderflow /\ SP = s /\ last.ret = 0
           ELSE /\ last.err = nil
                /\ last.ret = 256 * d[s + 1] + d[s + 2]
                /\ SP = s + 2
                /\ SP <= 65535

\* C5's cases, one after the other: a pop that returns the stored word
\* 0xBEEF and moves SP up by 2, then a pop that underflows with
\* SP + 1 = size.
PopBothOutcomesSeen ==
    /\ prev.op = "pop"
    /\ prev.err = nil
    /\ prev.ret = 48879
    /\ last.pre.SP = prev.pre.SP + 2
    /\ last.op = "pop"
    /\ last.err = ErrStackUnderflow
    /\ last.pre.SP + 1 = Len(data)
    /\ Len(data) <= MaxSize
    /\ SP = last.pre.SP

\* C6: call(address) either fails with the failure of its push (StackOverflow
\* when SP <= 2, else the failure of the word write) and leaves PC as it was,
\* or succeeds, and then PC = address and the pop that follows at once returns
\* the PC held before the call.
CallPushesThenJumps ==
    /\ last.op = "call" =>
           \/ /\ last.err = ErrStackOverflow
              /\ last.pre.SP <= 2
              /\ PC = last.pre.PC
           \/ /\ last.err = ErrAddressOutOfRange
              /\ last.pre.SP > 2
              /\ last.pre.SP - 1 >= Len(last.pre.data)
              /\ PC = last.pre.PC
           \/ /\ last.err = nil
              /\ PC = last.a
    /\ (last.op = "pop" /\ prev.op = "call" /\ prev.err = nil)
       => (last.err = nil /\ last.ret = prev.pre.PC)

\* C6's case: call(0xBEEF) with PC = 0xFEED, then pop returns 0xFEED.
CallThenPopSeen ==
    /\ last.op = "pop"
    /\ prev.op = "call"
    /\ prev.err = nil
    /\ prev.a = 48879
    /\ prev.pre.PC = 65261
    /\ last.pre.PC = 48879
    /\ last.ret = 65261

\* C7: push returns StackOverflow iff SP <= 2 at call time, whatever the
\* memory size and the value; when it does, SP and every memory byte are
\* unchanged.
PushOverflowIffSPAtMostTwo ==
    last.op = "push" =>
        /\ last.err = ErrStackOverflow <=> last.pre.SP <= 2
        /\ last.err = ErrStackOverflow => (SP = last.pre.SP /\ data = last.pre.data)

\* C7's case: the first call on a zeroed state is a push with SP = 0 over a
\* non-empty memory, and it overflows.
PushOverflowAtZeroSeen ==
    /\ nops = 1
    /\ last.op = "push"
    /\ last.pre.SP = 0
    /\ Len(data) = MaxSize
    /\ last.err = ErrStackOverflow

\* C8: SetByte(a, v) then GetByte(a) returns v; SetWord(a, w) then GetWord(a)
\* returns w, GetByte(a) the high byte of w and GetByte(a + 1) the low byte;
\* and a write changes no byte other than the one or two addressed.
MemoryRoundTrip ==
    /\ (prev.op = "SetByte" /\ prev.err = nil /\ last.op = "GetByte" /\ last.a = prev.a)
       => (last.err = nil /\ last.ret = prev.b)
    /\ (prev.op = "SetWord" /\ prev.err = nil /\ last.op = "GetWord" /\ last.a = prev.a)
       => (last.err = nil /\ last.ret = prev.b)
    /\ (prev.op = "SetWord" /\ prev.err = nil /\ last.op = "GetByte" /\ last.a = prev.a)
       => (last.err = nil /\ last.ret = prev.b \div 256)
    /\ (prev.op = "SetWord" /\ prev.err = nil /\ last.op = "GetByte" /\ last.a = prev.a + 1)
       => (last.err = nil /\ last.ret = prev.b % 256)
    /\ (last.op = "SetByte" /\ last.err = nil)
       => /\ Len(data) = Len(last.pre.data)
          /\ \A i \in 1 .. Len(data) : i # last.a + 1 => data[i] = last.pre.data[i]
    /\ (last.op = "SetWord" /\ last.err = nil)
       => /\ Len(data) = Len(last.pre.data)
          /\ \A i \in 1 .. Len(data) :
                 i \notin {last.a + 1, last.a + 2} => data[i] = last.pre.data[i]

\* C8's case: SetWord(a, 0xBEEF) then GetByte(a + 1) returns 0xEF, with a
\* byte written earlier elsewhere still in place.
WordThenLowByteSeen ==
    /\ prev.op = "SetWord"
    /\ prev.err = nil
    /\ prev.b = 48879
    /\ last.op = "GetByte"
    /\ last.a = prev.a + 1
    /\ last.ret = 239
    /\ data[prev.a + 1] = 190

\* C9: from a flags register whose low four bits are clear, after any
\* sequence of add8, add16, and, bit and of Set, Clear and SetIf on the four
\* named flags, the low four bits are still clear.
FlagsLowNibbleClear == F % 16 = 0

\* C9's case: two calls made, the second an add8 that changed the flags.
FlagsChangedTwiceSeen ==
    /\ nops >= 2
    /\ last.op = "add8"
    /\ last.pre.F \notin {0, F}
    /\ F # 0

Add16SumCarryHalfCarry ==
    last.op = "add16" =>
        LET l == last.pre.HL
            r == last.a
        IN /\ HL = (l + r) % 65536
           /\ FlagBit(F, 4) <=> l + r > 65535
           /\ FlagBit(F, 5) <=> (l % 4096) + (r % 4096) > 4095
           /\ ~FlagBit(F, 6)
           /\ FlagBit(F, 7) <=> FlagBit(last.pre.F, 7)
           /\ F % 16 = last.pre.F % 16

\* C11's case: add16(0xFFFF, 0x0002) stores 0x0001 and sets Carry and
\* Half-Carry, Add/Subtract goes from set to clear, and Zero, set before
\* the call, is still set though the result is not zero.
Add16WrapKeepsZeroSeen ==
    /\ last.op = "add16"
    /\ last.pre.HL = 65535
    /\ last.a = 2
    /\ HL = 1
    /\ last.pre.F = 192
    /\ F = 176

====
